---- MODULE Spec2Model ----
(***************************************************************************)
(* Model of the firestore:copy command (src/commands/firestore-copy.js)    *)
(* and of the FirestoreCopy operation (src/lib/firestore/copy.js).         *)
(*                                                                         *)
(* A JavaScript string is a sequence of one-character strings; the value   *)
(* undefined of a path argument is the one-element sequence Undefined.     *)
(* A field map is an opaque name; the value undefined of res.body.fields   *)
(* is NoFields.  The promise chain of _copyOneDocument is one action per   *)
(* settled request: the callbacks that run after a response, up to the     *)
(* next request or the settling of execute()'s promise, are one step.      *)
(***************************************************************************)
EXTENDS Integers, Sequences, FiniteSets, TLC

\* longest command-line path argument, in characters
MaxLen == 4

\* longest target argument of the runs that vary the target, in characters
MaxTargetLen == 5

\* the characters of a path argument
Chars == {"/", "a"}

\* an argument the command line does not give
Undefined == <<"undefined">>

\* the field maps a stored document can hold
FieldMaps == {"F1", "F2"}

\* res.body.fields of a document stored without fields; docs[p] of a missing key
NoFields == "undefined"

\* the content of a path where the service stores no document
Absent == "absent"

RECURSIVE StringsOfLen(_)
StringsOfLen(n) ==
  IF n = 0 THEN {<<>>}
  ELSE {Append(s, c) : s \in StringsOfLen(n - 1), c \in Chars}

\* every string of at most MaxLen characters
Strings == UNION {StringsOfLen(n) : n \in 0..MaxLen}

VARIABLES
  args,      \* the command line: source, target and the four flags
  remote,    \* the documents the Firestore service stores, by path
  remote0,   \* the documents stored when the command was invoked
  self,      \* the FirestoreCopy instance
  pc,        \* position of the run
  requests,  \* the requests issued to api.request, in order, with their status
  logs,      \* the lines handed to logger by _copyOneDocument
  outcome    \* how the promise (or call) of the command's action settled

vars == <<args, remote, remote0, self, pc, requests, logs, outcome>>

----------------------------------------------------------------------------
\* JavaScript helpers

\* Boolean(s) of a string or undefined
Truthy(s) == s # Undefined /\ s # <<>>

RECURSIVE DropLeading(_)
DropLeading(s) ==
  IF s # <<>> /\ Head(s) = "/" THEN DropLeading(Tail(s)) ELSE s

RECURSIVE DropTrailing(_)
DropTrailing(s) ==
  IF s # <<>> /\ s[Len(s)] = "/" THEN DropTrailing(SubSeq(s, 1, Len(s) - 1)) ELSE s

\* a strip that forgets the trailing alternative of the pattern
StripSlashes_LeadingOnly(s) == DropLeading(s)

\* s.replace(/(^\/+|\/+$)/g, "")
StripSlashes(s) == DropTrailing(DropLeading(s))

\* s.split("/"): the pieces between the slashes, at least one piece
RECURSIVE Split(_)
Split(s) ==
  IF \A i \in 1..Len(s) : s[i] # "/" THEN <<s>>
  ELSE LET k == CHOOSE i \in 1..Len(s) :
                  s[i] = "/" /\ \A j \in 1..(i - 1) : s[j] # "/"
       IN <<SubSeq(s, 1, k - 1)>> \o Split(SubSeq(s, k + 1, Len(s)))

\* pieces.join("/")
RECURSIVE Join(_)
Join(pieces) ==
  IF pieces = <<>> THEN <<>>
  ELSE IF Len(pieces) = 1 THEN pieces[1]
  ELSE pieces[1] \o <<"/">> \o Join(Tail(pieces))

----------------------------------------------------------------------------
\* FirestoreCopy: validation and path predicates

\* the error _validatePath throws for path, or "ok"; path.split of undefined
\* is a TypeError
_validatePath(path) ==
  LET pieces == Split(path) IN
  IF path = Undefined THEN "TypeError: Cannot read property 'split' of undefined"
  ELSE IF Len(pieces) = 0 THEN "Path length must be greater than zero."
  ELSE IF \E i \in 1..Len(pieces) : Len(pieces[i]) = 0
       THEN "Path must not have any empty segments."
       ELSE "ok"

_isDocumentPath(path) ==
  IF ~Truthy(path) THEN FALSE
  ELSE Len(Split(path)) % 2 = 0

\* a collection test that lacks the guard on the empty path
_isCollectionPath_Unguarded(path) == ~_isDocumentPath(path)

_isCollectionPath(path) ==
  IF ~Truthy(path) THEN FALSE
  ELSE ~_isDocumentPath(path)

\* a validation that lacks the check of overwrite against skip
_validateOptions_NoSkipCheck(this) ==
  IF this.recursive /\ this.shallow
    THEN "Cannot pass recursive and shallow options together."
  ELSE IF _validatePath(this.source) # "ok" THEN _validatePath(this.source)
  ELSE _validatePath(this.target)

\* the error _validateOptions throws for the instance, or "ok"
_validateOptions(this) ==
  IF this.recursive /\ this.shallow
    THEN "Cannot pass recursive and shallow options together."
  ELSE IF this.overwrite /\ this.skip
    THEN "Cannot pass overwrite and skip options together."
  ELSE IF _validatePath(this.source) # "ok" THEN _validatePath(this.source)
  ELSE _validatePath(this.target)

\* the empty object {}
EmptyDocs == [p \in {} |-> NoFields]

\* the fields of the instance as the constructor leaves them before it
\* calls _validateOptions
FirestoreCopy(source, target, options) ==
  LET src == IF Truthy(source) THEN StripSlashes(source) ELSE source
      tgt == IF Truthy(target) THEN StripSlashes(target) ELSE target
  IN [source |-> src,
      target |-> tgt,
      recursive |-> options.recursive,
      shallow |-> options.shallow,
      overwrite |-> options.overwrite,
      skip |-> options.skip,
      isDocumentPath |-> _isDocumentPath(src),
      isCollectionPath |-> _isCollectionPath(src),
      docs |-> EmptyDocs]

\* docs[path]
Lookup(docs, path) == IF path \in DOMAIN docs THEN docs[path] ELSE NoFields

\* docs[path] = fields
Store(docs, path, fields) ==
  [p \in (DOMAIN docs) \cup {path} |-> IF p = path THEN fields ELSE docs[p]]

\* an eviction that resets the whole cache, as self.docs = {} would
Evict_All(docs, path) == EmptyDocs

\* delete docs[path]
Evict(docs, path) == [p \in (DOMAIN docs) \ {path} |-> docs[p]]

----------------------------------------------------------------------------
\* Requests and outcomes

\* api.request("GET", ".../documents/" + source, {data: {}})
_getOneDocument(source) ==
  [method |-> "GET", path |-> source, documentId |-> <<>>,
   fields |-> "none", status |-> "pending"]

\* a create whose collection path is segments.slice(0, 1), the first segment
_createOneDocument_FirstSegment(this, source, target) ==
  LET segments == Split(target)
      collectionPath == Join(SubSeq(segments, 1, 1))
      documentId == segments[Len(segments)]
  IN [method |-> "POST", path |-> collectionPath, documentId |-> documentId,
      fields |-> Lookup(this.docs, source), status |-> "pending"]

\* api.request("POST", ".../documents/" + collectionPath + "?documentId=" +
\* documentId, {data: {fields: this.docs[source]}})
_createOneDocument(this, source, target) ==
  LET segments == Split(target)
      collectionPath == Join(SubSeq(segments, 1, Len(segments) - 1))
      documentId == segments[Len(segments)]
  IN [method |-> "POST", path |-> collectionPath, documentId |-> documentId,
      fields |-> Lookup(this.docs, source), status |-> "pending"]

\* api.request("DELETE", ".../documents/" + target, {data: {}})
_deleteOneDocument(target) ==
  [method |-> "DELETE", path |-> target, documentId |-> <<>>,
   fields |-> "none", status |-> "pending"]

\* the document a create request addresses
CreatedPath(req) ==
  IF req.path = <<>> THEN req.documentId
  ELSE req.path \o <<"/">> \o req.documentId

\* the promise has not settled
Pending == [kind |-> "pending", value |-> "none"]

\* the promise resolved with undefined
Resolved == [kind |-> "resolved", value |-> "undefined"]

\* the promise rejected with an error
Rejected(error) == [kind |-> "rejected", value |-> error]

\* the call threw an error
Thrown(error) == [kind |-> "thrown", value |-> error]

\* requests, with the request in flight settled
Settled(status) == [requests EXCEPT ![Len(requests)].status = status]

\* the request in flight
InFlight == requests[Len(requests)]

\* a duplicate test that looks the source up instead of the target
HasDuplicate_OfSource(this, target) == Lookup(this.docs, this.source) # NoFields

\* if (self.docs[target])
HasDuplicate(this, target) == Lookup(this.docs, target) # NoFields

\* the callback of _copyOneDocument that follows the two GETs: this is the
\* instance and reqs the requests once the last response is handled
Decide(this, reqs) ==
  IF HasDuplicate(this, this.target)
  THEN IF this.overwrite
       THEN /\ logs' = Append(logs, "debug: overwrite duplicate doc")
            /\ requests' = Append(reqs, _deleteOneDocument(this.target))
            /\ pc' = "delete"
            /\ outcome' = outcome
       ELSE IF this.skip
       THEN /\ logs' = Append(logs, "debug: skip duplicate doc")
            /\ requests' = reqs
            /\ pc' = "done"
            /\ outcome' = Resolved
       ELSE /\ logs' = Append(logs, "error: There is duplicate doc")
            /\ requests' = reqs
            /\ pc' = "done"
            /\ outcome' = Resolved
  ELSE /\ logs' = logs
       /\ requests' = Append(reqs, _createOneDocument(this, this.source, this.target))
       /\ pc' = "create"
       /\ outcome' = outcome

----------------------------------------------------------------------------
\* The command

\* the action of firestore:copy, up to the first request of execute()
action ==
  /\ pc = "invoked"
  /\ UNCHANGED <<args, remote, remote0, logs>>
  /\ IF ~Truthy(args.source) \/ ~Truthy(args.target)
     THEN /\ outcome' = Rejected("Must specify a source path and a target path.")
          /\ pc' = "done"
          /\ UNCHANGED <<self, requests>>
     ELSE LET copyOp == FirestoreCopy(args.source, args.target, args.options)
              error == _validateOptions(copyOp)
          IN /\ self' = copyOp
             /\ IF error # "ok"
                THEN /\ outcome' = Thrown(error)
                     /\ pc' = "done"
                     /\ UNCHANGED requests
                ELSE /\ requests' = Append(requests, _getOneDocument(copyOp.source))
                     /\ pc' = "getSource"
                     /\ outcome' = Pending

\* new FirestoreCopy(project, source, target, options) by a caller of the library
construct ==
  /\ pc = "new"
  /\ UNCHANGED <<args, remote, remote0, logs, requests>>
  /\ LET copyOp == FirestoreCopy(args.source, args.target, args.options)
         error == _validateOptions(copyOp)
     IN /\ self' = copyOp
        /\ IF error # "ok"
           THEN outcome' = Thrown(error) /\ pc' = "done"
           ELSE outcome' = Pending /\ pc' = "constructed"

----------------------------------------------------------------------------
\* The responses of the service

\* the GET of the source succeeds: lines 140-144, then the GET of the target
GetSourceOk ==
  /\ pc = "getSource"
  /\ remote[self.source] # Absent
  /\ self' = [self EXCEPT !.docs = Store(self.docs, self.source, remote[self.source])]
  /\ requests' = Append(Settled("ok"), _getOneDocument(self.target))
  /\ pc' = "getTarget"
  /\ UNCHANGED <<args, remote, remote0, logs, outcome>>

\* the GET of the source fails: the catch of line 210, then the decision
GetSourceFail ==
  /\ pc = "getSource"
  /\ Decide(self, Settled("failed"))
  /\ UNCHANGED <<args, remote, remote0, self>>

\* the GET of the target succeeds: lines 140-144, then the decision
GetTargetOk ==
  /\ pc = "getTarget"
  /\ remote[self.target] # Absent
  /\ self' = [self EXCEPT !.docs = Store(self.docs, self.target, remote[self.target])]
  /\ Decide(self', Settled("ok"))
  /\ UNCHANGED <<args, remote, remote0>>

\* the GET of the target fails: the catch of line 210, then the decision
GetTargetFail ==
  /\ pc = "getTarget"
  /\ Decide(self, Settled("failed"))
  /\ UNCHANGED <<args, remote, remote0, self>>

\* the DELETE succeeds: lines 193-196, then the create of line 216
DeleteOk ==
  /\ pc = "delete"
  /\ remote' = [remote EXCEPT ![InFlight.path] = Absent]
  /\ self' = [self EXCEPT !.docs = Evict(self.docs, self.target)]
  /\ requests' = Append(Settled("ok"),
                        _createOneDocument(self', self.source, self.target))
  /\ pc' = "create"
  /\ UNCHANGED <<args, remote0, logs, outcome>>

\* a failed DELETE whose error is swallowed, so that the create follows
DeleteFail_Swallowed ==
  /\ pc = "delete"
  /\ requests' = Append(Settled("failed"),
                        _createOneDocument(self, self.source, self.target))
  /\ pc' = "create"
  /\ UNCHANGED <<args, remote, remote0, self, logs, outcome>>

\* the DELETE fails: the promise of execute() rejects
DeleteFail ==
  /\ pc = "delete"
  /\ requests' = Settled("failed")
  /\ outcome' = Rejected("RemoteError")
  /\ pc' = "done"
  /\ UNCHANGED <<args, remote, remote0, self, logs>>

\* the POST succeeds: lines 171-174, the promise of execute() resolves
CreateOk ==
  /\ pc = "create"
  /\ CreatedPath(InFlight) \in DOMAIN remote
  /\ remote[CreatedPath(InFlight)] = Absent
  /\ remote' = [remote EXCEPT ![CreatedPath(InFlight)] = InFlight.fields]
  /\ requests' = Settled("ok")
  /\ outcome' = Resolved
  /\ pc' = "done"
  /\ UNCHANGED <<args, remote0, self, logs>>

\* a failed POST that is issued again once before the run gives up
CreateFail_RetryOnce ==
  /\ pc = "create"
  /\ IF \E i \in 1..(Len(requests) - 1) : requests[i].method = "POST"
     THEN /\ requests' = Settled("failed")
          /\ outcome' = Rejected("RemoteError")
          /\ pc' = "done"
     ELSE /\ requests' = Append(Settled("failed"), InFlight)
          /\ outcome' = outcome
          /\ pc' = "create"
  /\ UNCHANGED <<args, remote, remote0, self, logs>>

\* the POST fails: the promise of execute() rejects
CreateFail ==
  /\ pc = "create"
  /\ requests' = Settled("failed")
  /\ outcome' = Rejected("RemoteError")
  /\ pc' = "done"
  /\ UNCHANGED <<args, remote, remote0, self, logs>>

----------------------------------------------------------------------------
\* Specifications

\* the flags of the command line
Options == [recursive : BOOLEAN, shallow : BOOLEAN, overwrite : BOOLEAN, skip : BOOLEAN]

\* the path arguments given to the command
CommandPaths ==
  { Undefined,
    <<>>,
    <<"a", "/", "/", "a">>,
    <<"a">>,
    <<"a", "/", "a">>,
    <<"/", "a", "/", "a", "/">>,
    <<"a", "/", "a", "a">> }

\* the paths the run of the command addresses at the service
Addressed(a) ==
  IF ~Truthy(a.source) \/ ~Truthy(a.target) THEN {}
  ELSE IF _validateOptions(FirestoreCopy(a.source, a.target, a.options)) # "ok" THEN {}
  ELSE {StripSlashes(a.source), StripSlashes(a.target)}

\* the instance before construction
Blank ==
  [source |-> Undefined, target |-> Undefined, recursive |-> FALSE,
   shallow |-> FALSE, overwrite |-> FALSE, skip |-> FALSE,
   isDocumentPath |-> FALSE, isCollectionPath |-> FALSE, docs |-> EmptyDocs]

Init ==
  /\ args \in [source : CommandPaths, target : CommandPaths, options : Options]
  /\ remote \in [Addressed(args) -> {Absent, NoFields} \cup FieldMaps]
  /\ remote0 = remote
  /\ self = Blank
  /\ pc = "invoked"
  /\ requests = <<>>
  /\ logs = <<>>
  /\ outcome = Pending

Next ==
  \/ action
  \/ GetSourceOk
  \/ GetSourceFail
  \/ GetTargetOk
  \/ GetTargetFail
  \/ DeleteOk
  \/ DeleteFail
  \/ CreateOk
  \/ CreateFail

Spec == Init /\ [][Next]_vars

\* construction of FirestoreCopy on every pair of strings
InitConstruct ==
  /\ args \in [source : Strings \cup {Undefined}, target : Strings \cup {Undefined},
               options : Options]
  /\ remote = [p \in {} |-> Absent]
  /\ remote0 = remote
  /\ self = Blank
  /\ pc = "new"
  /\ requests = <<>>
  /\ logs = <<>>
  /\ outcome = Pending

NextConstruct == construct

SpecConstruct == InitConstruct /\ [][NextConstruct]_vars

\* every string of at most MaxTargetLen characters
TargetStrings == UNION {StringsOfLen(n) : n \in 0..MaxTargetLen}

\* runs of the command from the document a/a to every target string
InitTargets ==
  /\ args \in [source : {<<"a", "/", "a">>}, target : TargetStrings,
               options : {o \in Options : ~o.recursive /\ ~o.shallow}]
  /\ remote \in [Addressed(args) -> {Absent, NoFields} \cup FieldMaps]
  /\ remote0 = remote
  /\ self = Blank
  /\ pc = "invoked"
  /\ requests = <<>>
  /\ logs = <<>>
  /\ outcome = Pending

SpecTargets == InitTargets /\ [][Next]_vars

\* the path arguments of the runs checked for settling
FairPaths == { <<>>, <<"a", "/", "a">>, <<"a", "/", "a", "a">> }

InitFair ==
  /\ args \in [source : FairPaths, target : FairPaths, options : Options]
  /\ remote \in [Addressed(args) -> {Absent, NoFields} \cup FieldMaps]
  /\ remote0 = remote
  /\ self = Blank
  /\ pc = "invoked"
  /\ requests = <<>>
  /\ logs = <<>>
  /\ outcome = Pending

\* the action and the responses always come about: every request completes
FairSpec == InitFair /\ [][Next]_vars /\ WF_vars(Next)

----------------------------------------------------------------------------
\* Vocabulary of the properties

\* the positions of the issued requests of a method
Issued(method) == {i \in DOMAIN requests : requests[i].method = method}

\* the first request, the GET of the source, succeeded
SourceGetOk == Len(requests) >= 1 /\ requests[1].status = "ok"

\* the first request, the GET of the source, failed
SourceGetFailed == Len(requests) >= 1 /\ requests[1].status = "failed"

\* the second request, the GET of the target, succeeded
TargetGetOk ==
  Len(requests) >= 2 /\ requests[2].method = "GET" /\ requests[2].status = "ok"

\* execute() ran and the service stored a document at the target beforehand
TargetExisted == self.target \in DOMAIN remote0 /\ remote0[self.target] # Absent

\* execute() ran and the service stored no document at the target beforehand
TargetMissing == self.target \in DOMAIN remote0 /\ remote0[self.target] = Absent

\* the create request addresses the parent collection of target with the
\* last segment of target as document ID
AddressesTarget(req, target) ==
  /\ \A k \in 1..Len(req.documentId) : req.documentId[k] # "/"
  /\ target = (IF req.path = <<>> THEN <<>> ELSE req.path \o <<"/">>) \o req.documentId

----------------------------------------------------------------------------
\* C1: when the GET of the source succeeds and the target does not exist,
\* whatever the flags, no delete is ever issued, every create carries the
\* fields the source GET returned, and once the decision is taken exactly
\* one create has been issued.
C1_CreateOnceWhenTargetAbsent ==
  (SourceGetOk /\ TargetMissing) =>
     /\ Issued("DELETE") = {}
     /\ \A i \in Issued("POST") : requests[i].fields = remote0[self.source]
     /\ Cardinality(Issued("POST")) <= 1
     /\ pc \in {"create", "done"} => Cardinality(Issued("POST")) = 1

\* a run with overwrite set created the absent target from the source's fields
C1_Witness ==
  /\ pc = "done"
  /\ self.overwrite
  /\ SourceGetOk /\ TargetMissing
  /\ outcome = Resolved
  /\ Cardinality(Issued("POST")) = 1
  /\ remote[self.target] = remote0[self.source]
  /\ remote0[self.source] \in FieldMaps

\* C2: in every run with overwrite set in which the target exists,
\* exactly one delete and exactly one create are issued, the delete completed
\* before the create, the delete addresses the target and the create the
\* target's parent collection with its last segment as document ID.
C2_Original ==
  (pc = "done" /\ self.overwrite /\ TargetExisted) =>
     /\ Cardinality(Issued("DELETE")) = 1
     /\ Cardinality(Issued("POST")) = 1
     /\ \A i \in Issued("DELETE") :
          /\ requests[i].path = self.target
          /\ \A j \in Issued("POST") : i < j /\ requests[i].status # "pending"
     /\ \A j \in Issued("POST") : AddressesTarget(requests[j], self.target)

\* C3: in every run with skip set in which the target exists, no delete and
\* no create is issued, the stored target stays as it was, and execute()
\* completes without error.
C3_Original ==
  (self.skip /\ TargetExisted) =>
     /\ Issued("DELETE") = {}
     /\ Issued("POST") = {}
     /\ remote[self.target] = remote0[self.target]
     /\ pc = "done" => outcome = Resolved

\* C4: in every run with neither overwrite nor skip set in which the target
\* exists, no delete and no create is issued, and execute() settles with an
\* outcome other than the one of a successful copy and of a skip, which
\* both resolve with undefined.
C4_Original ==
  (~self.overwrite /\ ~self.skip /\ TargetExisted) =>
     /\ Issued("DELETE") = {}
     /\ Issued("POST") = {}
     /\ pc = "done" => outcome # Resolved

\* C5: in every run in which the GET of the source fails, no create and no
\* delete is issued and execute() ends in an error.
C5_Original ==
  SourceGetFailed =>
     /\ Issued("DELETE") = {}
     /\ Issued("POST") = {}
     /\ pc = "done" => outcome.kind = "rejected"

\* C6: every create request that is issued after a successful GET of the
\* source carries the field map that GET returned, also when source and
\* target are the same path.
C6_Original ==
  SourceGetOk =>
    \A i \in Issued("POST") : requests[i].fields = remote0[self.source]

----------------------------------------------------------------------------
\* the command line lacks a path or sets two flags that exclude each other
InvalidInvocation ==
  \/ ~Truthy(args.source)
  \/ ~Truthy(args.target)
  \/ args.options.recursive /\ args.options.shallow
  \/ args.options.overwrite /\ args.options.skip

\* C7: an invocation of the command that lacks the source or the target, or
\* sets both recursive and shallow, or both overwrite and skip, issues no
\* request at any point and ends in an error.
C7_InvalidInvocationFailsOffline ==
  InvalidInvocation =>
     /\ requests = <<>>
     /\ pc \in {"invoked", "done"}
     /\ pc = "done" => outcome.kind \in {"rejected", "thrown"}

\* an invocation with two well-formed paths and both overwrite and skip ended
\* in the error of _validateOptions
C7_Witness ==
  /\ pc = "done"
  /\ args.options.overwrite /\ args.options.skip
  /\ ~(args.options.recursive /\ args.options.shallow)
  /\ args.source = <<"a", "/", "a">>
  /\ args.target = <<"a", "/", "a", "a">>
  /\ outcome = Thrown("Cannot pass overwrite and skip options together.")
  /\ requests = <<>>

\* the string is a path: once the slashes at its ends are dropped it is not
\* empty and no two slashes are adjacent in it
WellFormed(s) ==
  /\ \E i \in 1..Len(s) : s[i] # "/"
  /\ \A j \in 1..(Len(s) - 1) :
       (s[j] = "/" /\ s[j + 1] = "/") =>
          \/ \A i \in 1..j : s[i] = "/"
          \/ \A k \in (j + 1)..Len(s) : s[k] = "/"

\* C8: with flags that do not exclude each other, the construction of
\* FirestoreCopy on two strings fails exactly when the source or the target,
\* its leading and trailing slashes stripped, is empty or has an empty segment.
C8_ConstructionFailsIffMalformedPath ==
  ( /\ pc # "new"
    /\ args.source \in Strings /\ args.target \in Strings
    /\ ~(args.options.recursive /\ args.options.shallow)
    /\ ~(args.options.overwrite /\ args.options.skip) ) =>
     /\ outcome.kind = "thrown" <=> ~(WellFormed(args.source) /\ WellFormed(args.target))
     /\ outcome.kind # "thrown" => pc = "constructed"

\* the construction threw on a target with an empty segment inside, and
\* accepted paths wrapped in slashes
C8_Witness ==
  /\ pc = "done"
  /\ args.source = <<"/", "a", "/">>
  /\ args.target = <<"a", "/", "/", "a">>
  /\ ~args.options.recursive /\ ~args.options.skip
  /\ outcome = Thrown("Path must not have any empty segments.")

\* the number of segments of a path: one more than its slashes
NumSegments(p) == 1 + Cardinality({i \in 1..Len(p) : p[i] = "/"})

\* C9: for the source path of a constructed instance, and for the strings
\* the instance was constructed on, if the path is not empty _isDocumentPath
\* is the negation of _isCollectionPath, true exactly when the number of
\* segments is even; if it is empty both are false.
C9_DocumentXorCollection ==
  (pc # "new" /\ args.source \in Strings /\ args.target \in Strings) =>
     /\ IF self.source = <<>>
        THEN ~self.isDocumentPath /\ ~self.isCollectionPath
        ELSE /\ self.isDocumentPath = ~self.isCollectionPath
             /\ self.isDocumentPath <=> NumSegments(self.source) % 2 = 0
             /\ self.isCollectionPath <=> NumSegments(self.source) % 2 = 1
     /\ \A p \in {args.source, args.target, self.target} :
          IF p = <<>>
          THEN ~_isDocumentPath(p) /\ ~_isCollectionPath(p)
          ELSE /\ _isDocumentPath(p) = ~_isCollectionPath(p)
               /\ _isDocumentPath(p) <=> NumSegments(p) % 2 = 0
               /\ _isCollectionPath(p) <=> NumSegments(p) % 2 = 1

\* an instance was constructed on the document path a/a, given as /a/a
C9_Witness ==
  /\ pc = "constructed"
  /\ self.source = <<"a", "/", "a">>
  /\ args.source = <<"/", "a", "/", "a">>
  /\ self.isDocumentPath /\ ~self.isCollectionPath

\* C10: a delete or create request that failed is the last request of the
\* run: execute() has ended in its error and nothing was issued after it.
C10_WriteFailureIsTerminal ==
  \A i \in Issued("DELETE") \cup Issued("POST") :
     requests[i].status = "failed" =>
        /\ i = Len(requests)
        /\ pc = "done"
        /\ outcome = Rejected("RemoteError")

\* the delete of an existing target failed and the run ended there
C10_Witness ==
  /\ pc = "done"
  /\ Issued("DELETE") # {}
  /\ InFlight.method = "DELETE" /\ InFlight.status = "failed"
  /\ Issued("POST") = {}
  /\ remote = remote0

----------------------------------------------------------------------------
\* the second request, the GET of the target, failed
TargetGetFailed ==
  Len(requests) >= 2 /\ requests[2].method = "GET" /\ requests[2].status = "failed"

\* C11: in every run in which the GET of the source succeeds and the GET of
\* the target fails, whatever the flags, the target is treated as absent:
\* exactly one create and no delete is issued, and the run does not end
\* without having issued that create.
C11_Original ==
  (SourceGetOk /\ TargetGetFailed) =>
     /\ Issued("DELETE") = {}
     /\ Cardinality(Issued("POST")) = 1

\* C12: at most one request is in flight at any time, the first request is
\* the GET of the source, the GET of the target is issued only once the GET
\* of the source has completed, and no delete or create is issued before the
\* GET of the target has completed.
C12_Original ==
  /\ \A i \in 1..(Len(requests) - 1) : requests[i].status # "pending"
  /\ requests # <<>> =>
       requests[1].method = "GET" /\ requests[1].path = self.source
  /\ \A j \in Issued("DELETE") \cup Issued("POST") :
       /\ j > 2
       /\ requests[2].method = "GET"
       /\ requests[2].path = self.target
       /\ requests[2].status # "pending"

\* C13: whenever the GET of the target succeeds, whatever fields it returns,
\* the target is treated as existing: with skip set or with neither flag set
\* no create and no delete is issued, and with overwrite set a delete is
\* issued and precedes the create.
C13_Original ==
  TargetGetOk =>
     IF self.overwrite
     THEN /\ Issued("DELETE") # {}
          /\ \A j \in Issued("POST") : \E i \in Issued("DELETE") : i < j
     ELSE Issued("DELETE") = {} /\ Issued("POST") = {}

\* C14: a delete has been issued only if overwrite is set and the GET of
\* the target succeeded in that run, and a run issues at most one delete and
\* at most one create.
C14_Original ==
  /\ Issued("DELETE") # {} => self.overwrite /\ TargetGetOk
  /\ Cardinality(Issued("DELETE")) <= 1
  /\ Cardinality(Issued("POST")) <= 1

----------------------------------------------------------------------------
\* every entry of docs comes from a successful GET of its path that no
\* successful delete of that path has followed
CacheFromGets ==
  \A p \in DOMAIN self.docs :
     \E i \in Issued("GET") :
        /\ requests[i].path = p
        /\ requests[i].status = "ok"
        /\ ~\E j \in Issued("DELETE") :
              j > i /\ requests[j].path = p /\ requests[j].status = "ok"

\* what the step that settles the request in flight does to docs: a
\* successful GET adds the returned fields under its path, a successful
\* delete removes the entry of the target, any other response changes nothing
CacheStep ==
  LET n == Len(requests) IN
  IF n >= 1 /\ requests[n].status = "pending" /\ requests'[n].status # "pending"
  THEN IF requests[n].method = "GET" /\ requests'[n].status = "ok"
       THEN /\ DOMAIN self'.docs = (DOMAIN self.docs) \cup {requests[n].path}
            /\ self'.docs[requests[n].path] = remote[requests[n].path]
            /\ \A q \in (DOMAIN self.docs) \ {requests[n].path} :
                 self'.docs[q] = self.docs[q]
       ELSE IF requests[n].method = "DELETE" /\ requests'[n].status = "ok"
       THEN /\ DOMAIN self'.docs = (DOMAIN self.docs) \ {self.target}
            /\ \A q \in DOMAIN self'.docs : self'.docs[q] = self.docs[q]
       ELSE self'.docs = self.docs
  ELSE self'.docs = EmptyDocs

\* C15: docs holds an entry for a path only if a GET of that path succeeded
\* and no delete of that path has succeeded since; a successful GET stores
\* the returned fields under its path, a successful delete removes exactly
\* the entry of the target, and a failed GET, a failed delete and a create
\* leave docs unchanged.
C15_CacheTracksGetsAndDeletes ==
  []CacheFromGets /\ [][CacheStep]_vars

\* after the delete of a target other than the source succeeded, docs holds
\* the entry of the source alone
C15_Witness ==
  /\ pc = "create"
  /\ self.source # self.target
  /\ \E i \in Issued("DELETE") : requests[i].status = "ok"
  /\ DOMAIN self.docs = {self.source}
  /\ self.docs[self.source] = remote0[self.source]
  /\ remote0[self.source] \in FieldMaps

----------------------------------------------------------------------------
\* C16: for a target of at least two segments, the create request carries a
\* collection path and a document ID such that the ID is the last segment,
\* the collection path is what precedes it, and collection path + "/" + ID
\* is the target.
C16_CreateSplitsTarget ==
  \A j \in Issued("POST") :
     NumSegments(self.target) >= 2 =>
        /\ requests[j].path # <<>>
        /\ requests[j].documentId # <<>>
        /\ \A k \in 1..Len(requests[j].documentId) : requests[j].documentId[k] # "/"
        /\ requests[j].path \o <<"/">> \o requests[j].documentId = self.target

\* a create was issued for the target a/a/a: collection path a/a, ID a
C16_Witness ==
  /\ pc = "done"
  /\ self.target = <<"a", "/", "a", "/", "a">>
  /\ \E j \in Issued("POST") :
        /\ requests[j].path = <<"a", "/", "a">>
        /\ requests[j].documentId = <<"a">>
        /\ requests[j].status = "ok"

----------------------------------------------------------------------------
\* C17: when every request completes, every run of the command settles, and
\* it never issues more than four requests: at most two GETs, one delete and
\* one create.
C17_SettlesWithinFourRequests ==
  <>(/\ pc = "done"
     /\ outcome # Pending
     /\ Len(requests) <= 4
     /\ Cardinality(Issued("GET")) <= 2
     /\ Cardinality(Issued("DELETE")) <= 1
     /\ Cardinality(Issued("POST")) <= 1
     /\ Issued("GET") \cup Issued("DELETE") \cup Issued("POST") = DOMAIN requests)

\* a run settled after two GETs, a delete and a create
C17_Witness ==
  /\ pc = "done"
  /\ outcome = Resolved
  /\ Len(requests) = 4
  /\ Cardinality(Issued("GET")) = 2
  /\ Cardinality(Issued("DELETE")) = 1
  /\ Cardinality(Issued("POST")) = 1

====
